---- MODULE Spec2Model ----
(***************************************************************************)
(* a2bei4-utils: the WebSocketManager (reconnect backoff, heartbeat,       *)
(* outbound queue) as a state machine.  One action per public method,      *)
(* transport callback, timer callback and window/document event handler.   *)
(* Every handler runs to completion: an action is the whole handler with   *)
(* every method it calls.                                                  *)
(***************************************************************************)
EXTENDS Integers, Sequences, FiniteSets, TLC

\* ---- bounds of the model ------------------------------------------------
MaxQueue == 2
MaxStale == 1
MaxOrphans == 1
MaxCallbacks == 3
MaxRuns == 3
MaxChunks == 2

\* ---- option values --------------------------------------------------------
\* options.maxReconnectAttempts: Infinity, encoded as a number no counter takes
Infinity == -1
reconnectBaseInterval == 1000
DefaultMaxReconnectInterval == 30000
\* a ceiling the second attempt (2 * base) already exceeds
LowMaxReconnectInterval == reconnectBaseInterval + (reconnectBaseInterval \div 2)
\* payloads on the wire other than the caller's (1, 2, ...):
\* the heartbeat ping, and what a ready-state-change listener sends
Ping == 0
ListenerPayload == 0 - 1

VARIABLES
    options,                \* this.options (fixed at construction)
    session,                \* what the caller and the page do in this run (fixed)
    ws,                     \* this.ws: "null" or the readyState of the transport it refers to
    stale,                  \* transports this.ws no longer refers to, whose callbacks still reach the manager
    readyState,             \* this.readyState
    reconnectAttempts,      \* this.reconnectAttempts
    forcedClose,            \* this.forcedClose
    isReconnecting,         \* this.isReconnecting
    heartbeatTimer,         \* this.heartbeatTimer: "null" | "pending"
    heartbeatTimeoutTimer,  \* this.heartbeatTimeoutTimer: "null" | "pending" | "fired"
    reconnectTimer,         \* this.reconnectTimer: [st: "null" | "pending" | "fired", delay]
    orphans,                \* armed timers no field refers to any more (per kind)
    messageQueue,           \* this.messageQueue
    listeners,              \* this.listeners: the callbacks registered ("observer" for every event,
                            \* "sender" for 'ready-state-change', "thrower" for 'message')
    attached,               \* window/document handlers registered
    hidden,                 \* document.hidden
    onLine,                 \* network state
    emitted,                \* events delivered to the observing listener by the last step
    wire,                   \* transport methods invoked by the last step
    threw,                  \* the last step ended with an uncaught exception
    life,                   \* "live" | "destroyed" (destroy() returned) | "reused" (caller used it again)
    closeStreak,            \* close() calls in a row up to and including the last step (0, 1, 2 = two or more)
    reconnectFailedCount,   \* 'reconnect-failed' emissions since the last open or connect() call (0, 1, 2 = two or more)
    registry,               \* one event's callback array of this.listeners, with what the last _emit invoked
    timer,                  \* an IntervalTimer
    resampler               \* an AudioStreamResampler

vars == <<options, session, ws, stale, readyState, reconnectAttempts, forcedClose, isReconnecting,
          heartbeatTimer, heartbeatTimeoutTimer, reconnectTimer, orphans, messageQueue,
          listeners, attached, hidden, onLine, emitted, wire, threw, life,
          closeStreak, reconnectFailedCount, registry, timer, resampler>>

\* the manager's own variables
managerVars == <<options, session, ws, stale, readyState, reconnectAttempts, forcedClose,
                 isReconnecting, heartbeatTimer, heartbeatTimeoutTimer, reconnectTimer, orphans,
                 messageQueue, listeners, attached, hidden, onLine, emitted, wire, threw, life,
                 closeStreak, reconnectFailedCount>>

Callbacks == {"observer", "sender"}
NoTimer == [st |-> "null", delay |-> 0]

\* The manager's fields as one record, so that nested method calls compose.
Mgr ==
    [ws |-> ws, stale |-> stale, readyState |-> readyState,
     reconnectAttempts |-> reconnectAttempts, forcedClose |-> forcedClose,
     isReconnecting |-> isReconnecting, heartbeatTimer |-> heartbeatTimer,
     heartbeatTimeoutTimer |-> heartbeatTimeoutTimer, reconnectTimer |-> reconnectTimer,
     orphans |-> orphans, messageQueue |-> messageQueue, listeners |-> listeners,
     attached |-> attached, reconnectFailedCount |-> reconnectFailedCount,
     emitted |-> <<>>, wire |-> <<>>, threw |-> FALSE, closeStreak |-> 0, blocked |-> FALSE]

Ev(name, state, attempt, interval) ==
    [name |-> name, state |-> state, attempt |-> attempt, interval |-> interval]

Call(op, arg, outcome) == [op |-> op, arg |-> arg, outcome |-> outcome]

StaleCount(m) == m.stale.CONNECTING + m.stale.OPEN + m.stale.CLOSING

\* ---- the transport (browser WebSocket) -----------------------------------
\* ws.send(data): throws while CONNECTING, transmits while OPEN, discards otherwise.
\* On a null this.ws the property access itself throws.
TransportSend(m, p) ==
    IF m.ws = "null" THEN [m EXCEPT !.threw = TRUE]
    ELSE IF m.ws = "CONNECTING"
        THEN [m EXCEPT !.threw = TRUE, !.wire = Append(@, Call("send", p, "threw"))]
    ELSE IF m.ws = "OPEN"
        THEN [m EXCEPT !.wire = Append(@, Call("send", p, "sent"))]
    ELSE [m EXCEPT !.wire = Append(@, Call("send", p, "discarded"))]

\* ws.close(code, reason): starts the closing handshake unless already closing/closed.
\* `accepted` is FALSE when the transport rejects the code (InvalidAccessError).
TransportClose(m, code, accepted) ==
    IF m.ws = "null" THEN [m EXCEPT !.threw = TRUE]
    ELSE IF ~accepted
        THEN [m EXCEPT !.threw = TRUE, !.wire = Append(@, Call("close", code, "threw"))]
    ELSE [m EXCEPT !.wire = Append(@, Call("close", code, "called")),
                   !.ws = IF @ \in {"CONNECTING", "OPEN"} THEN "CLOSING" ELSE @]

\* ---- send / queue ---------------------------------------------------------
Send(m, p) ==
    IF m.threw THEN m
    ELSE IF m.readyState = "OPEN" THEN TransportSend(m, p)
    ELSE [m EXCEPT !.messageQueue = Append(@, p)]

RECURSIVE SendEach(_, _)
SendEach(m, q) ==
    IF q = <<>> THEN m ELSE SendEach(Send(m, Head(q)), Tail(q))

FlushMessageQueue(m) ==
    IF m.threw \/ m.messageQueue = <<>> THEN m
    ELSE SendEach([m EXCEPT !.messageQueue = <<>>], m.messageQueue)

\* ---- events ---------------------------------------------------------------
\* _emit: every registered callback runs, in registration order, with nothing
\* caught.  "observer" records the event; "sender" is a ready-state-change
\* callback that calls send() once OPEN is reported; "thrower" is a 'message'
\* callback, registered after the observer, that throws.
Emit(m, e) ==
    IF m.threw THEN m
    ELSE LET m0 == IF e.name = "reconnect-failed"
                   THEN [m EXCEPT !.reconnectFailedCount = IF @ < 2 THEN @ + 1 ELSE 2]
                   ELSE m
             m1 == IF "observer" \in m.listeners
                   THEN [m0 EXCEPT !.emitted = Append(@, e)] ELSE m0
         IN IF e.name = "ready-state-change" /\ e.state = "OPEN" /\ "sender" \in m.listeners
            THEN Send(m1, ListenerPayload)
            ELSE IF e.name = "message" /\ "thrower" \in m.listeners
            THEN [m1 EXCEPT !.threw = TRUE]
            ELSE m1

UpdateReadyState(m, newState) ==
    IF m.threw THEN m
    ELSE Emit([m EXCEPT !.readyState = newState], Ev("ready-state-change", newState, 0, 0))

\* ---- heartbeat ------------------------------------------------------------
ClearHeartbeatTimeout(m) ==
    IF m.heartbeatTimeoutTimer # "null"
    THEN [m EXCEPT !.heartbeatTimeoutTimer = "null"] ELSE m

HandlePong(m) == ClearHeartbeatTimeout(m)

\* setTimeout: a timer still pending under the overwritten handle stays armed.
SetHeartbeatTimeout(m) ==
    LET m1 == ClearHeartbeatTimeout(m)
    IN [m1 EXCEPT !.heartbeatTimeoutTimer = "pending",
                  !.orphans.heartbeatTimeout =
                      @ + (IF m1.heartbeatTimeoutTimer = "pending" THEN 1 ELSE 0)]

StopHeartbeat(m) ==
    ClearHeartbeatTimeout(
        IF m.heartbeatTimer # "null" THEN [m EXCEPT !.heartbeatTimer = "null"] ELSE m)

StartHeartbeat(m) ==
    IF ~options.getPingMessage THEN m
    ELSE LET m1 == StopHeartbeat(m)
         IN [m1 EXCEPT !.heartbeatTimer = "pending",
                       !.orphans.heartbeat =
                           @ + (IF m1.heartbeatTimer = "pending" THEN 1 ELSE 0)]

\* the setInterval callback of _startHeartbeat
HeartbeatTick(m) ==
    IF m.ws = "OPEN" THEN SetHeartbeatTimeout(TransportSend(m, Ping)) ELSE m

\* the setTimeout callback of _setHeartbeatTimeout
HeartbeatTimedOut(m, accepted) == TransportClose(m, 1006, accepted)

\* ---- reconnect ------------------------------------------------------------
RECURSIVE Pow2(_)
Pow2(k) == IF k = 0 THEN 1 ELSE 2 * Pow2(k - 1)

Min(a, b) == IF a < b THEN a ELSE b

\* (mutant) the ceiling is forgotten
IntervalUncapped(attempts) == options.reconnectBaseInterval * Pow2(attempts)

Interval(attempts) ==
    Min(options.reconnectBaseInterval * Pow2(attempts), options.maxReconnectInterval)

\* reconnectAttempts >= maxReconnectAttempts (never true of Infinity)
AtCap(attempts) ==
    options.maxReconnectAttempts # Infinity /\ attempts >= options.maxReconnectAttempts

ClearReconnectTimer(m) ==
    IF m.reconnectTimer.st # "null" THEN [m EXCEPT !.reconnectTimer = NoTimer] ELSE m

ScheduleReconnect(m) ==
    IF m.threw THEN m
    ELSE IF m.forcedClose \/ m.isReconnecting \/ AtCap(m.reconnectAttempts)
        THEN IF AtCap(m.reconnectAttempts)
             THEN Emit(m, Ev("reconnect-failed", "", 0, 0)) ELSE m
    ELSE LET interval == Interval(m.reconnectAttempts)
             m1 == Emit([m EXCEPT !.isReconnecting = TRUE],
                        Ev("reconnect-attempt", "", m.reconnectAttempts + 1, interval))
         IN [m1 EXCEPT !.reconnectTimer = [st |-> "pending", delay |-> interval],
                       !.orphans.reconnect =
                           @ + (IF m1.reconnectTimer.st = "pending" THEN 1 ELSE 0),
                       !.blocked = @ \/ (m1.reconnectTimer.st = "pending"
                                          /\ m1.orphans.reconnect >= MaxOrphans)]

\* ---- transport callbacks --------------------------------------------------
OnOpen(m) ==
    LET m1 == UpdateReadyState(m, "OPEN")
        m2 == [m1 EXCEPT !.reconnectAttempts = 0, !.isReconnecting = FALSE]
        m3 == IF options.getPingMessage THEN StartHeartbeat(m2) ELSE m2
        m4 == FlushMessageQueue(m3)
    IN IF m1.threw THEN m1
       ELSE IF m4.threw THEN m4
       ELSE Emit(m4, Ev("open", "", 0, 0))

\* isPong: what options.isPongMessage(event) would return for this message;
\* parses: whether JSON.parse(event.data) succeeds.  With deserializeData the
\* try block holds both the parse and the _emit, so its catch also runs when a
\* callback throws, and emits the raw data.
OnMessage(m, isPong, parses) ==
    IF options.isPongMessage /\ isPong THEN HandlePong(m)
    ELSE IF options.deserializeData /\ parses
        THEN LET m1 == Emit(m, Ev("message", "", 0, 0))
             IN IF m1.threw
                THEN Emit([m1 EXCEPT !.threw = FALSE], Ev("message", "", 0, 0))
                ELSE m1
    ELSE Emit(m, Ev("message", "", 0, 0))

OnClose(m) ==
    LET m1 == UpdateReadyState(m, "CLOSED")
        m2 == StopHeartbeat(m1)
        m3 == Emit(m2, Ev("close", "", 0, 0))
    IN IF ~m3.forcedClose THEN ScheduleReconnect(m3) ELSE m3

OnError(m) == Emit(m, Ev("error", "", 0, 0))

\* ---- public API -----------------------------------------------------------
\* new WebSocket(url) throws for a url the platform rejects (options.urlOk = FALSE).
\* A replaced transport that is still closing keeps its onclose callback.
Connect(m) ==
    IF m.threw \/ m.ws \in {"CONNECTING", "OPEN"} THEN m
    ELSE LET m1 == UpdateReadyState([m EXCEPT !.forcedClose = FALSE], "CONNECTING")
             m2 == Emit(m1, Ev("connecting", "", 0, 0))
         IN IF ~options.urlOk THEN OnError(m2)
            ELSE [m2 EXCEPT !.ws = "CONNECTING",
                            !.stale.CLOSING = @ + (IF m2.ws = "CLOSING" THEN 1 ELSE 0),
                            !.blocked = @ \/ (m2.ws = "CLOSING" /\ StaleCount(m2) >= MaxStale)]

Close(m) ==
    LET m1 == ClearReconnectTimer(StopHeartbeat([m EXCEPT !.forcedClose = TRUE]))
    IN IF m1.ws = "OPEN" THEN TransportClose(m1, 1000, TRUE)
       ELSE Emit(UpdateReadyState(m1, "CLOSED"), Ev("close", "", 0, 0))

Destroy(m) ==
    LET m1 == Close(m)
        live == m1.ws \in {"CONNECTING", "OPEN", "CLOSING"}
    IN [m1 EXCEPT !.attached = FALSE, !.messageQueue = <<>>, !.listeners = {},
                  !.ws = "null",
                  !.stale = IF live THEN [@ EXCEPT ![m1.ws] = @ + 1] ELSE @,
                  !.blocked = @ \/ (live /\ StaleCount(m1) >= MaxStale)]

\* ---- window / document handlers -------------------------------------------
HandleVisibilityChange(m, nowHidden) ==
    IF ~options.getPingMessage THEN m
    ELSE IF nowHidden THEN StopHeartbeat(m)
    ELSE IF m.ws = "OPEN" THEN StartHeartbeat(m)
    ELSE IF ~m.forcedClose /\ ~m.isReconnecting THEN Connect(m)
    ELSE m

HandleOnline(m) ==
    IF ~m.forcedClose /\ m.readyState # "OPEN" THEN Connect(ClearReconnectTimer(m)) ELSE m

HandleOffline(m) ==
    LET m1 == ClearReconnectTimer(m)
    IN IF m1.ws # "null" THEN OnClose(m1) ELSE m1

\* ---- the listener registry in detail ----------------------------------------
\* One event's array of this.listeners.  The callbacks a caller registers:
\* Plain returns; Once calls off() for itself when invoked; Evictor calls off()
\* for Plain when invoked.
Plain == 1
Once == 2
Evictor == 3
RegistryCallbacks == {Plain, Once, Evictor}

\* callbacks.indexOf(callback), 0 when absent (positions count from 1)
RECURSIVE IndexFrom(_, _, _)
IndexFrom(callbacks, callback, i) ==
    IF i > Len(callbacks) THEN 0
    ELSE IF callbacks[i] = callback THEN i
    ELSE IndexFrom(callbacks, callback, i + 1)

IndexOf(callbacks, callback) == IndexFrom(callbacks, callback, 1)

\* callbacks.splice(index, 1)
Splice(callbacks, index) ==
    SubSeq(callbacks, 1, index - 1) \o SubSeq(callbacks, index + 1, Len(callbacks))

On(callbacks, callback) == Append(callbacks, callback)

Off(callbacks, callback) ==
    LET index == IndexOf(callbacks, callback)
    IN IF index > 0 THEN Splice(callbacks, index) ELSE callbacks

\* what invoking a callback does to the array
Invoke(callbacks, callback) ==
    IF callback = Once THEN Off(callbacks, Once)
    ELSE IF callback = Evictor THEN Off(callbacks, Plain)
    ELSE callbacks

\* Array.prototype.forEach over the array itself: the length is read once,
\* every index still present when it is reached is visited.
RECURSIVE ForEach(_, _, _)
ForEach(r, k, len) ==
    IF k > len THEN r
    ELSE IF k > Len(r.callbacks) THEN ForEach(r, k + 1, len)
    ELSE ForEach([r EXCEPT !.callbacks = Invoke(@, r.callbacks[k]),
                           !.invoked = Append(@, r.callbacks[k])], k + 1, len)

EmitAll(r) ==
    ForEach([r EXCEPT !.snapshot = r.callbacks, !.invoked = <<>>], 1, Len(r.callbacks))

\* ---- IntervalTimer ----------------------------------------------------------
\* timerId: "null", or the state of the timeout this._timerId names
\* ("pending" | "fired"); runs: calls of fn; stopped: stop() was the last of
\* start()/stop() to be called.
NewIntervalTimer == [timerId |-> "null", runs |-> 0, stopped |-> FALSE]

TimerStop(t) ==
    [t EXCEPT !.timerId = IF @ # "null" THEN "null" ELSE @, !.stopped = TRUE]

\* loop: fn(), which may itself call stop(), then setTimeout(loop, ms)
TimerLoop(t, fnStops) ==
    LET t1 == [t EXCEPT !.runs = @ + 1]
        t2 == IF fnStops THEN TimerStop(t1) ELSE t1
    IN [t2 EXCEPT !.timerId = "pending"]

TimerStart(t, fnStops) == TimerLoop([TimerStop(t) EXCEPT !.stopped = FALSE], fnStops)

isRunning(t) == t.timerId # "null"

\* ---- AudioStreamResampler ---------------------------------------------------
\* A PCM chunk is a sequence of samples.
Chunks == {<<1>>, <<2, 3>>}

RECURSIVE Combine(_)
Combine(chunks) == IF chunks = <<>> THEN <<>> ELSE Head(chunks) \o Combine(Tail(chunks))

\* received: the chunks the worklet posted since processing started;
\* called, combined: whether the last stop() called its callback, and with what.
NewResampler(saveFullPcm) ==
    [saveFullPcm |-> saveFullPcm, isInitialized |-> FALSE, isProcessing |-> FALSE,
     fullPcmData |-> <<>>, received |-> <<>>, called |-> FALSE, combined |-> <<>>]

ResamplerInit(r, ok) ==
    [r EXCEPT !.isInitialized = IF ok THEN TRUE ELSE @, !.called = FALSE, !.combined = <<>>]

SetMediaStream(r) ==
    IF ~r.isInitialized THEN [r EXCEPT !.called = FALSE, !.combined = <<>>]
    ELSE [r EXCEPT !.isProcessing = TRUE,
                   !.received = IF r.isProcessing THEN @ ELSE <<>>,
                   !.called = FALSE, !.combined = <<>>]

\* workletNode.port.onmessage
PortMessage(r, chunk) ==
    [r EXCEPT !.fullPcmData = IF r.saveFullPcm THEN Append(@, chunk) ELSE @,
              !.received = Append(@, chunk),
              !.called = FALSE, !.combined = <<>>]

Cleanup(r) ==
    [r EXCEPT !.isProcessing = FALSE, !.isInitialized = FALSE, !.fullPcmData = <<>>]

ResamplerStop(r, callback) ==
    IF ~r.isProcessing THEN [r EXCEPT !.called = FALSE, !.combined = <<>>]
    ELSE LET r1 == Cleanup(r)
         IN IF r1.saveFullPcm /\ callback
            THEN [r1 EXCEPT !.called = TRUE, !.combined = Combine(r1.fullPcmData)]
            ELSE [r1 EXCEPT !.called = FALSE, !.combined = <<>>]

\* an empty registry, a new IntervalTimer, a new AudioStreamResampler
HelpersConstructed(saveFullPcm) ==
    /\ registry = [callbacks |-> <<>>, snapshot |-> <<>>, invoked |-> <<>>]
    /\ timer = NewIntervalTimer
    /\ resampler = NewResampler(saveFullPcm)

\* ---- the state machine ----------------------------------------------------
Defaults ==
    [getPingMessage |-> TRUE, isPongMessage |-> TRUE, autoConnect |-> TRUE, urlOk |-> TRUE,
     deserializeData |-> FALSE,
     maxReconnectAttempts |-> Infinity, reconnectBaseInterval |-> reconnectBaseInterval,
     maxReconnectInterval |-> DefaultMaxReconnectInterval]

\* The option objects a manager is constructed with.
OptionSets ==
    {Defaults,
     [Defaults EXCEPT !.autoConnect = FALSE],
     [Defaults EXCEPT !.urlOk = FALSE],
     [Defaults EXCEPT !.getPingMessage = FALSE],
     [Defaults EXCEPT !.isPongMessage = FALSE],
     [Defaults EXCEPT !.maxReconnectAttempts = 1],
     [Defaults EXCEPT !.maxReconnectAttempts = 3,
                      !.maxReconnectInterval = LowMaxReconnectInterval]}

\* A run is one session of one manager.  In a messaging session the caller
\* sends payloads and may register both callbacks; in an ambient session the
\* page changes visibility and the network goes off and on.
Messaging == [sends |-> TRUE, callbacks |-> Callbacks, ambient |-> FALSE]
Ambient == [sends |-> FALSE, callbacks |-> {"observer"}, ambient |-> TRUE]

Runs ==
    (OptionSets \X {Ambient})
        \cup ({Defaults, [Defaults EXCEPT !.autoConnect = FALSE]} \X {Messaging})

\* The constructor: fields initialised, window/document handlers registered,
\* connect() run when options.autoConnect (before any listener can be registered).
Constructed(o, run) ==
    /\ options = o
    /\ session = run
    /\ ws = IF o.autoConnect /\ o.urlOk THEN "CONNECTING" ELSE "null"
    /\ readyState = IF o.autoConnect THEN "CONNECTING" ELSE "CLOSED"
    /\ stale = [CONNECTING |-> 0, OPEN |-> 0, CLOSING |-> 0]
    /\ reconnectAttempts = 0
    /\ forcedClose = FALSE
    /\ isReconnecting = FALSE
    /\ heartbeatTimer = "null"
    /\ heartbeatTimeoutTimer = "null"
    /\ reconnectTimer = NoTimer
    /\ orphans = [heartbeat |-> 0, heartbeatTimeout |-> 0, reconnect |-> 0]
    /\ messageQueue = <<>>
    /\ listeners = {}
    /\ attached = TRUE
    /\ hidden = FALSE
    /\ onLine = TRUE
    /\ emitted = <<>>
    /\ wire = <<>>
    /\ threw = FALSE
    /\ life = "live"
    /\ closeStreak = 0
    /\ reconnectFailedCount = 0

Init == HelpersConstructed(FALSE) /\ \E r \in Runs : Constructed(r[1], r[2])

\* The handler's result becomes the next state.
Commit(m) ==
    /\ ~m.blocked
    /\ ws' = m.ws
    /\ stale' = m.stale
    /\ readyState' = m.readyState
    /\ reconnectAttempts' = m.reconnectAttempts
    /\ forcedClose' = m.forcedClose
    /\ isReconnecting' = m.isReconnecting
    /\ heartbeatTimer' = m.heartbeatTimer
    /\ heartbeatTimeoutTimer' = m.heartbeatTimeoutTimer
    /\ reconnectTimer' = m.reconnectTimer
    /\ orphans' = m.orphans
    /\ messageQueue' = m.messageQueue
    /\ listeners' = m.listeners
    /\ attached' = m.attached
    /\ emitted' = m.emitted
    /\ wire' = m.wire
    /\ threw' = m.threw
    /\ closeStreak' = m.closeStreak
    /\ reconnectFailedCount' = m.reconnectFailedCount
    /\ UNCHANGED <<options, session, registry, timer, resampler>>

Reused == IF life = "live" THEN "live" ELSE "reused"

\* -- the caller
CallConnect ==
    /\ Commit(Connect([Mgr EXCEPT !.reconnectFailedCount = 0]))
    /\ life' = Reused
    /\ UNCHANGED <<hidden, onLine>>

\* The manager never inspects a payload: the caller's payload is named by its
\* place behind the ones still queued, which tells it apart from each of them.
CallSend ==
    /\ session.sends
    /\ Len(messageQueue) < MaxQueue
    /\ Commit(Send(Mgr, Len(messageQueue) + 1))
    /\ life' = Reused
    /\ UNCHANGED <<hidden, onLine>>

CallClose ==
    /\ Commit([Close(Mgr) EXCEPT !.closeStreak = IF closeStreak < 2 THEN closeStreak + 1 ELSE 2])
    /\ UNCHANGED <<hidden, onLine, life>>

CallDestroy ==
    /\ Commit(Destroy(Mgr))
    /\ life' = "destroyed"
    /\ UNCHANGED <<hidden, onLine>>

CallOn ==
    \E cb \in session.callbacks \ listeners :
        /\ Commit([Mgr EXCEPT !.listeners = @ \cup {cb}])
        /\ life' = Reused
        /\ UNCHANGED <<hidden, onLine>>

CallOff ==
    \E cb \in listeners :
        /\ Commit([Mgr EXCEPT !.listeners = @ \ {cb}])
        /\ UNCHANGED <<hidden, onLine, life>>

\* -- the transport this.ws refers to
TransportOpened ==
    /\ ws = "CONNECTING"
    /\ Commit(OnOpen([Mgr EXCEPT !.ws = "OPEN", !.reconnectFailedCount = 0]))
    /\ UNCHANGED <<hidden, onLine, life>>

\* the connection could not be established: error, then close
TransportFailed ==
    /\ ws = "CONNECTING"
    /\ Commit(OnClose(OnError([Mgr EXCEPT !.ws = "CLOSED"])))
    /\ UNCHANGED <<hidden, onLine, life>>

\* an open connection was lost, or a closing handshake completed
TransportClosed ==
    /\ ws \in {"OPEN", "CLOSING"}
    /\ Commit(OnClose([Mgr EXCEPT !.ws = "CLOSED"]))
    /\ UNCHANGED <<hidden, onLine, life>>

TransportMessage ==
    /\ ws = "OPEN"
    /\ \E isPong \in BOOLEAN, parses \in BOOLEAN : Commit(OnMessage(Mgr, isPong, parses))
    /\ UNCHANGED <<hidden, onLine, life>>

\* -- a transport this.ws no longer refers to: its callbacks are still the manager's
StaleOpened ==
    /\ stale.CONNECTING > 0
    /\ Commit(OnOpen([Mgr EXCEPT !.stale.CONNECTING = @ - 1, !.stale.OPEN = @ + 1,
                                  !.reconnectFailedCount = 0]))
    /\ UNCHANGED <<hidden, onLine, life>>

StaleFailed ==
    /\ stale.CONNECTING > 0
    /\ Commit(OnClose(OnError([Mgr EXCEPT !.stale.CONNECTING = @ - 1])))
    /\ UNCHANGED <<hidden, onLine, life>>

StaleClosed ==
    \E s \in {"OPEN", "CLOSING"} :
        /\ stale[s] > 0
        /\ Commit(OnClose([Mgr EXCEPT !.stale[s] = @ - 1]))
        /\ UNCHANGED <<hidden, onLine, life>>

StaleMessage ==
    /\ stale.OPEN > 0
    /\ \E isPong \in BOOLEAN, parses \in BOOLEAN : Commit(OnMessage(Mgr, isPong, parses))
    /\ UNCHANGED <<hidden, onLine, life>>

\* -- timers: the one the field refers to, or an armed one no field refers to
TimerHeartbeat ==
    /\ heartbeatTimer = "pending" \/ orphans.heartbeat > 0
    /\ Commit(HeartbeatTick(Mgr))
    /\ UNCHANGED <<hidden, onLine, life>>

TimerHeartbeatTimeout ==
    \E accepted \in BOOLEAN, field \in BOOLEAN :
        /\ IF field THEN heartbeatTimeoutTimer = "pending" ELSE orphans.heartbeatTimeout > 0
        /\ Commit(HeartbeatTimedOut(
               IF field THEN [Mgr EXCEPT !.heartbeatTimeoutTimer = "fired"]
               ELSE [Mgr EXCEPT !.orphans.heartbeatTimeout = @ - 1], accepted))
        /\ UNCHANGED <<hidden, onLine, life>>

\* the setTimeout callback of _scheduleReconnect
ReconnectNow(m) == Connect([m EXCEPT !.reconnectAttempts = @ + 1])

TimerReconnect ==
    \E field \in BOOLEAN :
        /\ IF field THEN reconnectTimer.st = "pending" ELSE orphans.reconnect > 0
        /\ Commit(ReconnectNow(
               IF field THEN [Mgr EXCEPT !.reconnectTimer.st = "fired"]
               ELSE [Mgr EXCEPT !.orphans.reconnect = @ - 1]))
        /\ UNCHANGED <<hidden, onLine, life>>

\* -- window / document (once the handlers are removed, the events reach nothing)
NetOnline ==
    /\ session.ambient /\ attached /\ ~onLine
    /\ onLine' = TRUE
    /\ Commit(HandleOnline(Mgr))
    /\ UNCHANGED <<hidden, life>>

NetOffline ==
    /\ session.ambient /\ attached /\ onLine
    /\ onLine' = FALSE
    /\ Commit(HandleOffline(Mgr))
    /\ UNCHANGED <<hidden, life>>

VisibilityChange ==
    /\ session.ambient /\ attached
    /\ hidden' = ~hidden
    /\ Commit(HandleVisibilityChange(Mgr, ~hidden))
    /\ UNCHANGED <<onLine, life>>

Next ==
    \/ CallConnect \/ CallSend \/ CallClose \/ CallDestroy \/ CallOn \/ CallOff
    \/ TransportOpened \/ TransportFailed \/ TransportClosed \/ TransportMessage
    \/ StaleOpened \/ StaleFailed \/ StaleClosed \/ StaleMessage
    \/ TimerHeartbeat \/ TimerHeartbeatTimeout \/ TimerReconnect
    \/ NetOnline \/ NetOffline \/ VisibilityChange

Spec == Init /\ [][Next]_vars

\* ---- the unattended manager ------------------------------------------------
\* Default intervals, no close()/destroy()/connect() by the caller, no page or
\* network event: only the transport and the timers drive the manager.
InitUnattended ==
    /\ HelpersConstructed(FALSE)
    /\ \E o \in {Defaults, [Defaults EXCEPT !.maxReconnectAttempts = 3]} :
           Constructed(o, Messaging)

NextUnattended ==
    \/ CallSend \/ CallOn \/ CallOff
    \/ TransportOpened \/ TransportFailed \/ TransportClosed \/ TransportMessage
    \/ TimerHeartbeat \/ TimerHeartbeatTimeout \/ TimerReconnect

SpecUnattended == InitUnattended /\ [][NextUnattended]_vars

\* ---- the receiving manager ---------------------------------------------------
\* The caller only listens for messages, with or without deserializeData; one
\* of its 'message' callbacks may throw.
Inbound == [sends |-> FALSE, callbacks |-> {"observer", "thrower"}, ambient |-> FALSE]

InitInbound ==
    /\ HelpersConstructed(FALSE)
    /\ \E o \in {Defaults, [Defaults EXCEPT !.deserializeData = TRUE]} :
           Constructed(o, Inbound)

NextInbound ==
    \/ CallOn \/ CallOff
    \/ TransportOpened \/ TransportFailed \/ TransportClosed \/ TransportMessage
    \/ TimerHeartbeat \/ TimerHeartbeatTimeout \/ TimerReconnect

SpecInbound == InitInbound /\ [][NextInbound]_vars

\* ---- the listener registry alone ----------------------------------------------
\* on(), off() and _emit on one event of a manager that is never connected.
InitRegistry ==
    /\ HelpersConstructed(FALSE)
    /\ Constructed([Defaults EXCEPT !.autoConnect = FALSE], Messaging)

RegistryOn ==
    \E callback \in RegistryCallbacks :
        /\ Len(registry.callbacks) < MaxCallbacks
        /\ registry' = [registry EXCEPT !.callbacks = On(@, callback)]
        /\ UNCHANGED <<managerVars, timer, resampler>>

RegistryOff ==
    \E callback \in RegistryCallbacks :
        /\ registry' = [registry EXCEPT !.callbacks = Off(@, callback)]
        /\ UNCHANGED <<managerVars, timer, resampler>>

RegistryEmit ==
    /\ registry' = EmitAll(registry)
    /\ UNCHANGED <<managerVars, timer, resampler>>

NextRegistry == RegistryOn \/ RegistryOff \/ RegistryEmit

SpecRegistry == InitRegistry /\ [][NextRegistry]_vars

\* ---- the timer and the resampler -----------------------------------------------
\* An IntervalTimer and an AudioStreamResampler of the same page.
InitUtilities ==
    /\ \E saveFullPcm \in BOOLEAN : HelpersConstructed(saveFullPcm)
    /\ Constructed([Defaults EXCEPT !.autoConnect = FALSE], Messaging)

CallTimerStart ==
    \E fnStops \in BOOLEAN :
        /\ timer.runs < MaxRuns
        /\ timer' = TimerStart(timer, fnStops)
        /\ UNCHANGED <<managerVars, registry, resampler>>

CallTimerStop ==
    /\ timer' = TimerStop(timer)
    /\ UNCHANGED <<managerVars, registry, resampler>>

\* the timeout this._timerId names fires: loop runs
TimeoutFires ==
    \E fnStops \in BOOLEAN :
        /\ timer.timerId = "pending"
        /\ timer.runs < MaxRuns
        /\ timer' = TimerLoop([timer EXCEPT !.timerId = "fired"], fnStops)
        /\ UNCHANGED <<managerVars, registry, resampler>>

CallResamplerInit ==
    \E ok \in BOOLEAN :
        /\ resampler' = ResamplerInit(resampler, ok)
        /\ UNCHANGED <<managerVars, registry, timer>>

CallSetMediaStream ==
    /\ resampler' = SetMediaStream(resampler)
    /\ UNCHANGED <<managerVars, registry, timer>>

\* the worklet posts a chunk: it has a source connected and its port is open
WorkletPosts ==
    \E chunk \in Chunks :
        /\ resampler.isProcessing
        /\ Len(resampler.received) < MaxChunks
        /\ resampler' = PortMessage(resampler, chunk)
        /\ UNCHANGED <<managerVars, registry, timer>>

CallResamplerStop ==
    \E callback \in BOOLEAN :
        /\ resampler' = ResamplerStop(resampler, callback)
        /\ UNCHANGED <<managerVars, registry, timer>>

NextUtilities ==
    \/ CallTimerStart \/ CallTimerStop \/ TimeoutFires
    \/ CallResamplerInit \/ CallSetMediaStream \/ WorkletPosts \/ CallResamplerStop

SpecUtilities == InitUtilities /\ [][NextUtilities]_vars

\* ---- properties -------------------------------------------------------------
HasEvent(evs, name) == \E i \in 1..Len(evs) : evs[i].name = name

CountEvents(evs, name) == Cardinality({i \in 1..Len(evs) : evs[i].name = name})

ReconnectPending == reconnectTimer.st = "pending" \/ orphans.reconnect > 0

AnyTimerPending ==
    \/ heartbeatTimer = "pending" \/ orphans.heartbeat > 0
    \/ heartbeatTimeoutTimer = "pending" \/ orphans.heartbeatTimeout > 0
    \/ ReconnectPending

\* min(base * 2^k, max), written out
CappedExponential(k) ==
    LET raw == options.reconnectBaseInterval * (2 ^ k)
    IN IF raw <= options.maxReconnectInterval THEN raw ELSE options.maxReconnectInterval

\* a step in which _scheduleReconnect arms a reconnect timer
SchedulesReconnect ==
    /\ reconnectTimer'.st = "pending"
    /\ reconnectTimer.st # "pending" \/ orphans'.reconnect > orphans.reconnect

\* C1: when a manager in service goes from not-OPEN to OPEN, the payloads queued
\* before are the first ones handed to the transport, each once and transmitted,
\* in queue order, ahead of anything sent later, and the queue is then empty.
C1_QueueFlushedFirstInOrder ==
    [][(life = "live" /\ readyState # "OPEN" /\ readyState' = "OPEN") =>
        /\ messageQueue' = <<>>
        /\ Len(wire') >= Len(messageQueue)
        /\ \A i \in 1..Len(messageQueue) :
               wire'[i] = Call("send", messageQueue[i], "sent")]_vars

\* C2: every step that arms a reconnect timer arms it with the delay
\* min(base * 2^reconnectAttempts, max), and the 'reconnect-attempt' event a
\* listener sees in that step carries that delay and attempt reconnectAttempts + 1.
C2_DelayIsCappedExponential ==
    [][SchedulesReconnect =>
        /\ reconnectTimer'.delay = CappedExponential(reconnectAttempts')
        /\ reconnectAttempts' = reconnectAttempts
        /\ "observer" \in listeners' =>
               \E i \in 1..Len(emitted') :
                   emitted'[i] = Ev("reconnect-attempt", "", reconnectAttempts' + 1,
                                    CappedExponential(reconnectAttempts'))]_vars

\* C2 witness: a second attempt was just scheduled and reported, at the ceiling
C2_Witness ==
    /\ reconnectTimer = [st |-> "pending", delay |-> options.maxReconnectInterval]
    /\ reconnectAttempts = 1
    /\ options.reconnectBaseInterval * 2 > options.maxReconnectInterval
    /\ \E i \in 1..Len(emitted) :
           emitted[i].name = "reconnect-attempt" /\ emitted[i].attempt = 2

\* C3: in an unattended manager every unexpected transport close below the cap
\* (the k-th in a row finds reconnectAttempts = k) leaves a reconnect timer
\* armed with delay min(base * 2^k, max): 1000, 2000, 4000, 8000, 16000, ...
C3_EveryDropSchedulesBackoff ==
    [][((TransportFailed \/ TransportClosed) /\ ~AtCap(reconnectAttempts)) =>
        /\ reconnectTimer'.st = "pending"
        /\ reconnectTimer'.delay = CappedExponential(reconnectAttempts)]_vars

\* C4: from close() until the caller's next connect() (forcedClose is TRUE
\* exactly then) no reconnect timer and no heartbeat timer is pending.
C4_NoTimerWhileForcedClosed ==
    (life = "live" /\ forcedClose) => ~AnyTimerPending

\* C5: the second of two close() calls in a row shows listeners no 'close' event.
C5_SecondCloseIsSilent ==
    closeStreak = 2 => ~HasEvent(emitted, "close")

\* C6: once destroy() has returned (and the caller leaves the instance alone),
\* no timer firing and no transport callback delivers an event to a listener
\* or invokes a transport method.
C6_NothingObservableAfterDestroy ==
    [][(life = "destroyed" /\ life' = "destroyed" /\ ~CallDestroy /\ ~CallClose) =>
        (emitted' = <<>> /\ wire' = <<>>)]_vars

\* C7: once destroy() has returned, no timer is pending.
C7_NoTimerAfterDestroy ==
    life = "destroyed" => ~AnyTimerPending

\* C8: after destroy() the manager stays CLOSED without a transport, whatever
\* the caller calls, and transmits nothing; right after destroy() the queue and
\* the listener map are empty.
C8_DestroyIsTerminal ==
    /\ life = "destroyed" => (messageQueue = <<>> /\ listeners = {})
    /\ life # "live" =>
        /\ readyState = "CLOSED"
        /\ ws = "null"
        /\ \A i \in 1..Len(wire) : wire[i].outcome # "sent"

\* C9: with maxReconnectAttempts = 3 an unattended manager stops retrying only
\* at the cap: while the transport is closed with no reconnect timer pending,
\* three reconnect attempts have been made.
C9_GivesUpOnlyAtCap ==
    (options.maxReconnectAttempts = 3 /\ ws = "CLOSED" /\ ~ReconnectPending) =>
        reconnectAttempts >= 3

\* C10: 'reconnect-failed' is emitted at most once between two opens or
\* connect() calls.
C10_ReconnectFailedOnce ==
    reconnectFailedCount <= 1

\* C11: once 'reconnect-failed' has been emitted, and until the caller calls
\* connect(), the manager stays CLOSED and no step creates a transport.
C11_NoRetryAfterGivingUp ==
    [][(reconnectFailedCount >= 1 /\ ~CallConnect) =>
        /\ readyState' = "CLOSED"
        /\ ~(ws' = "CONNECTING" /\ ws # "CONNECTING")]_vars

\* C12: the transport's open callback leaves reconnectAttempts = 0 and
\* isReconnecting = FALSE, and reconnectAttempts is 0 in every state in which
\* the manager is OPEN.
C12_AttemptsZeroWhileOpen ==
    [][/\ (TransportOpened \/ StaleOpened) => (reconnectAttempts' = 0 /\ ~isReconnecting')
       /\ readyState' = "OPEN" => reconnectAttempts' = 0]_vars

\* C13: when the heartbeat timeout fires the transport's close is called with
\* code 1006 and goes through, no 'error' event is emitted and nothing is
\* thrown; the close of a transport closing for that reason (the only closing
\* transport of a manager not forced closed) schedules a reconnect below the cap.
C13_HeartbeatTimeoutReconnects ==
    [][/\ TimerHeartbeatTimeout =>
              /\ wire' = <<Call("close", 1006, "called")>>
              /\ ~HasEvent(emitted', "error")
              /\ ~threw'
       /\ (TransportClosed /\ ws = "CLOSING" /\ ~forcedClose /\ ~AtCap(reconnectAttempts)) =>
              reconnectTimer'.st = "pending"]_vars

\* C14: without a ping producer or without a pong predicate there is no
\* heartbeat: no interval timer, no heartbeat timeout, no ping on the wire.
C14_NoHeartbeatWithoutBothOptions ==
    (~options.getPingMessage \/ ~options.isPongMessage) =>
        /\ heartbeatTimer = "null" /\ orphans.heartbeat = 0
        /\ heartbeatTimeoutTimer # "pending" /\ orphans.heartbeatTimeout = 0
        /\ \A i \in 1..Len(wire) : ~(wire[i].op = "send" /\ wire[i].arg = Ping)

\* an inbound message of the transport this.ws refers to, as one step
MessageStep(isPong, parses) ==
    /\ ws = "OPEN"
    /\ Commit(OnMessage(Mgr, isPong, parses))
    /\ UNCHANGED <<hidden, onLine, life>>

\* C15: an inbound message the pong predicate matches leaves no heartbeat
\* timeout pending and shows listeners no 'message' event; any other inbound
\* message shows a registered listener exactly one 'message' event and leaves
\* the heartbeat timeout as it was.
C15_PongConsumedElseOneMessage ==
    [][\A isPong \in BOOLEAN, parses \in BOOLEAN :
        MessageStep(isPong, parses) =>
            IF options.isPongMessage /\ isPong
            THEN /\ heartbeatTimeoutTimer' # "pending"
                 /\ ~HasEvent(emitted', "message")
            ELSE /\ "observer" \in listeners => CountEvents(emitted', "message") = 1
                 /\ heartbeatTimeoutTimer' = heartbeatTimeoutTimer]_vars

\* C16: send(p) never throws; when the manager is OPEN it transmits p on an
\* open transport, otherwise it appends p to the queue and calls no transport
\* method.
C16_SendTransmitsOrQueues ==
    [][CallSend =>
        /\ ~threw'
        /\ IF readyState = "OPEN"
           THEN /\ wire' = <<Call("send", Len(messageQueue) + 1, "sent")>>
                /\ messageQueue' = messageQueue
           ELSE /\ wire' = <<>>
                /\ messageQueue' = Append(messageQueue, Len(messageQueue) + 1)]_vars

\* C17: with a url the platform accepts, connect() on a manager that is
\* CONNECTING or OPEN changes no field, emits nothing and calls no transport
\* method; on any other manager it clears forcedClose, sets readyState to
\* CONNECTING, emits 'connecting' and makes this.ws a new connecting transport.
C17_ConnectIdempotent ==
    [][(CallConnect /\ options.urlOk) =>
        IF readyState \in {"CONNECTING", "OPEN"}
        THEN /\ UNCHANGED <<ws, stale, readyState, reconnectAttempts, forcedClose,
                            isReconnecting, heartbeatTimer, heartbeatTimeoutTimer,
                            reconnectTimer, messageQueue, listeners>>
             /\ emitted' = <<>> /\ wire' = <<>>
        ELSE /\ ~forcedClose'
             /\ readyState' = "CONNECTING"
             /\ ws' = "CONNECTING" /\ ws # "CONNECTING"
             /\ "observer" \in listeners => CountEvents(emitted', "connecting") = 1]_vars

\* C18: connect() with a url the platform rejects throws nothing, emits
\* 'error', does not leave readyState CONNECTING and, below the cap, leaves a
\* reconnect timer pending.
C18_ConstructionFailureReconnects ==
    [][(CallConnect /\ ~options.urlOk) =>
        /\ ~threw'
        /\ "observer" \in listeners => HasEvent(emitted', "error")
        /\ readyState' # "CONNECTING"
        /\ ~AtCap(reconnectAttempts') => reconnectTimer'.st = "pending"]_vars

\* C19: an 'online' event on a manager that is neither forced closed nor OPEN
\* leaves no reconnect timer armed: none scheduled before it can fire afterwards.
C19_OnlineCancelsBackoff ==
    [][(NetOnline /\ ~forcedClose /\ readyState # "OPEN") => ~ReconnectPending']_vars

\* C20: an 'offline' event on a manager with a transport, not forced closed and
\* below the cap, leaves readyState CLOSED and a reconnect timer pending, and
\* shows a registered listener one 'close' event.
C20_OfflineClosesAndReschedules ==
    [][(NetOffline /\ ws # "null" /\ ~forcedClose /\ ~AtCap(reconnectAttempts)) =>
        /\ readyState' = "CLOSED"
        /\ "observer" \in listeners => CountEvents(emitted', "close") = 1
        /\ reconnectTimer'.st = "pending"]_vars

\* the callbacks other than one, in order
Others(callbacks, callback) == SelectSeq(callbacks, LAMBDA c : c # callback)

\* C22: an _emit invokes the callbacks registered when it started, each once, in
\* registration order, also when a callback calls off(); off(cb) takes one cb
\* out of the array, if there is one, and leaves the others in their order.
C22_EmitInvokesAllInOrder ==
    [][/\ RegistryEmit => registry'.invoked = registry.callbacks
       /\ \A callback \in RegistryCallbacks :
              (registry'.callbacks = Off(registry.callbacks, callback)
                  /\ registry'.invoked = registry.invoked) =>
                  /\ Others(registry'.callbacks, callback) = Others(registry.callbacks, callback)
                  /\ Len(registry'.callbacks) \in {Len(registry.callbacks),
                                                   Len(registry.callbacks) - 1}]_vars

\* C23: after stop(), and until the next start(), no timeout is pending,
\* isRunning() is false and fn is not called.
C23_StopStopsTheTimer ==
    [][timer'.stopped =>
        /\ timer'.timerId # "pending"
        /\ ~isRunning(timer')
        /\ timer.stopped => timer'.runs = timer.runs]_vars

\* stop(callback) as one step
StopStep(callback) ==
    /\ resampler' = ResamplerStop(resampler, callback)
    /\ UNCHANGED <<managerVars, registry, timer>>

\* C24: stop(callback) on a processing resampler that saves the full PCM calls
\* the callback with the chunks received since processing started, concatenated
\* in arrival order; stop() on a resampler that is not processing calls nothing.
C24_StopDeliversFullPcm ==
    [][\A callback \in BOOLEAN :
        StopStep(callback) =>
            IF resampler.isProcessing
            THEN (resampler.saveFullPcm /\ callback) =>
                     /\ resampler'.called
                     /\ resampler'.combined = Combine(resampler.received)
                     /\ Len(resampler'.combined) =
                            Len(Combine(resampler.received))
            ELSE ~resampler'.called]_vars

\* a reconnect is under way: a backoff timer is armed or a transport is connecting
ReconnectInFlight == ReconnectPending \/ ws = "CONNECTING"

\* C21: with the heartbeat configured, hiding the page leaves no heartbeat
\* interval and no heartbeat timeout pending; showing it again leaves the
\* heartbeat interval running when the transport is open, and otherwise, when no
\* reconnect is in flight and the close was not forced, runs connect().
C21_VisibilityPausesAndResumes ==
    [][(VisibilityChange /\ options.getPingMessage) =>
        IF hidden'
        THEN heartbeatTimer' = "null" /\ heartbeatTimeoutTimer' # "pending"
        ELSE IF ws = "OPEN" THEN heartbeatTimer' = "pending"
        ELSE (~forcedClose /\ ~ReconnectInFlight) => readyState' = "CONNECTING"]_vars

\* C25: on an instance not used again after destroy(), a heartbeat interval or
\* heartbeat timeout is pending only while readyState is OPEN (stated for the
\* states in which the transport this.ws refers to is open).
C25_HeartbeatOnlyWhileOpen ==
    (/\ life # "reused" /\ ws = "OPEN"
     /\ \/ heartbeatTimer = "pending" \/ orphans.heartbeat > 0
        \/ heartbeatTimeoutTimer = "pending" \/ orphans.heartbeatTimeout > 0)
        => readyState = "OPEN"

\* the armed timers of one kind: the one the field names and the ones no field names
Armed(fieldState, unnamed) == (IF fieldState = "pending" THEN 1 ELSE 0) + unnamed

\* C26: at most one heartbeat interval, one heartbeat timeout and one reconnect
\* timer is armed at any time.
C26_OneTimerOfEachKind ==
    /\ Armed(heartbeatTimer, orphans.heartbeat) <= 1
    /\ Armed(heartbeatTimeoutTimer, orphans.heartbeatTimeout) <= 1
    /\ Armed(reconnectTimer.st, orphans.reconnect) <= 1

\* C27: readyState is CONNECTING, OPEN or CLOSED and listeners are told only
\* these; it becomes OPEN only from CONNECTING and CONNECTING only from CLOSED.
C27_ReadyStateMachine ==
    [][/\ readyState' \in {"CONNECTING", "OPEN", "CLOSED"}
       /\ \A i \in 1..Len(emitted') :
              emitted'[i].name = "ready-state-change" =>
                  emitted'[i].state \in {"CONNECTING", "OPEN", "CLOSED"}
       /\ (readyState' = "OPEN" /\ readyState # "OPEN") => readyState = "CONNECTING"
       /\ (readyState' = "CONNECTING" /\ readyState # "CONNECTING") =>
              readyState = "CLOSED"]_vars

\* C28: while the manager is in service, not forced closed and below the cap,
\* isReconnecting implies that a backoff timer is armed or a transport is
\* connecting.
C28_ReconnectingMeansInFlight ==
    (life = "live" /\ ~forcedClose /\ ~AtCap(reconnectAttempts) /\ isReconnecting)
        => ReconnectInFlight

\* C29: from close() until the caller's next connect() no step makes the
\* manager OPEN, starts the heartbeat interval or sends anything.
C29_ClosedStaysClosed ==
    [][(life = "live" /\ forcedClose /\ ~CallConnect) =>
        /\ ~(readyState' = "OPEN" /\ readyState # "OPEN")
        /\ ~(heartbeatTimer' = "pending" /\ heartbeatTimer # "pending")
        /\ \A i \in 1..Len(wire') : wire'[i].op # "send"]_vars

\* C30: on a manager in service, a callback of a transport this.ws no longer
\* refers to, arriving while this.ws refers to a newer transport, changes
\* neither readyState nor a heartbeat or reconnect timer and emits nothing.
C30_SupersededTransportIsIgnored ==
    [][((StaleOpened \/ StaleFailed \/ StaleClosed \/ StaleMessage)
            /\ life = "live" /\ ws # "null") =>
        /\ readyState' = readyState
        /\ heartbeatTimer' = heartbeatTimer
        /\ heartbeatTimeoutTimer' = heartbeatTimeoutTimer
        /\ reconnectTimer' = reconnectTimer
        /\ emitted' = <<>>]_vars

====
